---- MODULE Spec2Model ----
(***************************************************************************)
(* PrecisionPlugin (pytorch_lightning/plugins/precision/precision_plugin.py)*)
(*                                                                         *)
(* Five specifications over one set of variables:                          *)
(*   Spec      pre_backward, backward, post_backward and clip_gradients,   *)
(*             called in any order with any arguments;                     *)
(*   SpecStep  pre_optimizer_step followed by optimizer_step, once per     *)
(*             optimizer of an optimization step, the optimizers in any    *)
(*             order;                                                      *)
(*   SpecParams master_params on an optimizer's parameter groups;          *)
(*   SpecClip  clip_grad_by_value and clip_grad_by_norm on an optimizer's  *)
(*             parameter groups and gradients;                             *)
(*   SpecCtx   the generator based context managers.                       *)
(*                                                                         *)
(* Python's None is the empty tuple, a present value v the tuple <<v>>.    *)
(* Gradient values and thresholds are fixed-point numbers, one unit being  *)
(* 1e-6, so that the 1e-6 which torch adds to the total norm is one unit.  *)
(***************************************************************************)
EXTENDS Integers, Sequences, FiniteSets, TLC

VARIABLES
    automatic_optimization, \* model.automatic_optimization
    use_deepspeed,          \* self.trainer.accelerator_connector.use_deepspeed
    track_grad_norm,        \* trainer.track_grad_norm
    gradient_clip_val,      \* trainer.gradient_clip_val
    gradient_clip_algorithm,\* trainer.gradient_clip_algorithm
    current_fx_name,        \* trainer.lightning_module._current_fx_name
    calls,                  \* the calls made by the most recent plugin call, in order
    last,                   \* the most recent plugin call: its arguments and its outcome
    step_events,            \* calls made by pre_optimizer_step/optimizer_step in this step
    pending,                \* optimizer indices not yet given to pre_optimizer_step
    current,                \* the index given to pre_optimizer_step, optimizer_step due
    param_groups,           \* optimizer.param_groups: a sequence of groups["params"]
    grad,                   \* p.grad of every parameter
    view,                   \* what the last master_params generator yielded
    before,                 \* the gradients before the most recent plugin call
    stack,                  \* the context managers entered and not yet exited
    ctx_log,                \* enter/exit events of the context managers
    exc                     \* the exception raised in the body of the with statements

hookVars == <<automatic_optimization, use_deepspeed, track_grad_norm, gradient_clip_val,
              gradient_clip_algorithm, current_fx_name, calls, last, step_events,
              pending, current>>
clipVars == <<param_groups, view, before>>
ctxVars == <<stack, ctx_log, exc>>
vars == <<hookVars, clipVars, grad, ctxVars>>

----------------------------------------------------------------------------
\* Bounds

NumOptimizers == 2
MaxExtraArgs == 2
NumParams == 2
MaxGroups == 2
MaxGroupLen == 2
MaxScopes == 3

None == <<>>
Some(v) == <<v>>

OptimizerIdx == 0 .. (NumOptimizers - 1)
OptimizerNames == <<"opt0", "opt1", "opt2", "opt3">>
Optimizers == {OptimizerNames[i + 1] : i \in OptimizerIdx}
ModelKinds == {"LightningModule", "Module", "None"}
ArgNames == <<"arg1", "arg2", "arg3", "arg4">>
ExtraArgs == {SubSeq(ArgNames, 1, n) : n \in 0 .. MaxExtraArgs}
KwargKeys == {"retain_graph", "model"}
StepKwargs == {{}, {"closure"}}
GradClipAlgorithmType == {"norm", "value"}
HookClipVals == {None, Some(0), Some(5000)}
ClipSettings == {<<None, "norm">>, <<Some(5000), "value">>}
TrackGradNorm == {-1, 2}
FxNames == {"None", "training_step"}
ClosureResults == {"None", "loss"}
Params == 1 .. NumParams
GradValues == {-6000, 3000, 4000}
\* Thresholds: absent, zero, positive; for the clamp a negative one as well (a
\* negative max_norm multiplies near-zero gradients out of the integer range).
ClipVals == {None, Some(0), Some(5000)}
ValueClipVals == ClipVals \cup {Some(-1000)}
\* The 1e-6 that torch.nn.utils.clip_grad_norm_ adds to the total norm, in units.
Eps == 1

----------------------------------------------------------------------------
\* Instrumentation: one record per call made by the plugin.

Ev(fn, args, idx, val, kw) ==
    [fn |-> fn, args |-> args, idx |-> idx, val |-> val, kw |-> kw, fx |-> current_fx_name,
     raises |-> "None"]

EvFx(fn, args, fx) ==
    [fn |-> fn, args |-> args, idx |-> -1, val |-> None, kw |-> {}, fx |-> fx,
     raises |-> "None"]

\* The call ev, which raises exception when fails.
Callee(ev, fails, exception) == IF fails THEN [ev EXCEPT !.raises = exception] ELSE ev

\* What the call of a plugin method ends with: the exception of the callee that
\* raised, nothing in the method catching it.
Outcome(evs) ==
    IF evs # <<>> /\ evs[Len(evs)].raises # "None" THEN evs[Len(evs)].raises ELSE "returned"

Call(op, model, loss, opt, idx, args, kw, val, alg, outcome, ret) ==
    [op |-> op, model |-> model, loss |-> loss, opt |-> opt, idx |-> idx, args |-> args,
     kw |-> kw, val |-> val, alg |-> alg, outcome |-> outcome, ret |-> ret]

NoCall == Call("none", "None", "None", "None", -1, <<>>, {}, None, "norm", "returned", "None")

isLightningModule(model) == model = "LightningModule"

detach(tensor) == tensor \o ".detach()"

Thin(evs, idx) ==
    [i \in 1 .. Len(evs) |->
        [fn |-> IF evs[i].fn = "call_hook" THEN evs[i].args[1] ELSE evs[i].fn, idx |-> idx]]

Count(evs, fn) == Cardinality({i \in 1 .. Len(evs) : evs[i].fn = fn})

----------------------------------------------------------------------------
\* The hooks of one optimization step (Spec)

Result(evs, outcome, ret) == [calls |-> evs, outcome |-> outcome, ret |-> ret]

\* pre_backward that hands back a detached copy of the loss.
pre_backward_detached(model, closure_loss) ==
    Result(<<Ev("call_hook", <<"on_before_backward", closure_loss>>, -1, None, {})>>,
           "returned", detach(closure_loss))

\* pre_backward: notify the trainer, hand the loss back.
pre_backward(model, closure_loss) ==
    Result(<<Ev("call_hook", <<"on_before_backward", closure_loss>>, -1, None, {})>>,
           "returned", closure_loss)

\* def _run_backward(self, tensor, model, *args, **kwargs): python binds the first
\* extra positional argument (or the keyword "model") to the parameter model.
_run_backward(positional, kwargs, fails) ==
    LET tensor == Head(positional)
        rest == Tail(positional)
    IN  IF rest = <<>> /\ "model" \notin kwargs
        THEN Result(<<>>, "TypeError", "None")
        ELSE IF rest # <<>> /\ "model" \in kwargs
        THEN Result(<<>>, "TypeError", "None")
        ELSE LET args == IF rest = <<>> THEN <<>> ELSE Tail(rest)
                 called == <<Callee(Ev("tensor.backward", <<tensor>> \o args, -1, None,
                                       kwargs \ {"model"}),
                                    fails, "TensorBackwardError")>>
             IN  Result(called, Outcome(called), "None")

\* backward that catches whatever the backward pass raises.
backward_swallows(model, closure_loss, optimizer, args, kwargs, fails) ==
    IF model # "None" /\ isLightningModule(model)
    THEN Result(<<Callee(Ev("model.backward", <<closure_loss, optimizer>> \o args,
                            -1, None, kwargs),
                         fails, "ModelBackwardError")>>,
                "returned", "None")
    ELSE LET r == _run_backward(<<closure_loss>> \o args, kwargs, fails)
         IN  Result(<<Ev("self._run_backward", <<closure_loss>> \o args, -1, None, kwargs)>>
                        \o r.calls,
                    "returned", "None")

backward(model, closure_loss, optimizer, args, kwargs, fails) ==
    IF model # "None" /\ isLightningModule(model)
    THEN LET called == <<Callee(Ev("model.backward", <<closure_loss, optimizer>> \o args,
                                   -1, None, kwargs),
                                fails, "ModelBackwardError")>>
         IN  Result(called, Outcome(called), "None")
    ELSE LET r == _run_backward(<<closure_loss>> \o args, kwargs, fails)
         IN  Result(<<Ev("self._run_backward", <<closure_loss>> \o args, -1, None, kwargs)>>
                        \o r.calls,
                    r.outcome, "None")

\* post_backward that notifies before it detaches and hands back the loss it got.
post_backward_attached(model, closure_loss) ==
    Result(<<Ev("call_hook", <<"on_after_backward">>, -1, None, {}),
             Ev("tensor.detach", <<closure_loss>>, -1, None, {})>>,
           "returned", closure_loss)

post_backward(model, closure_loss) ==
    LET detached == detach(closure_loss)
    IN  Result(<<Ev("tensor.detach", <<closure_loss>>, -1, None, {}),
                 Ev("call_hook", <<"on_after_backward">>, -1, None, {})>>,
               "returned", detached)

\* _track_grad_norm that reports whatever grad_norm returned.
_track_grad_norm_reports_empty(empty) ==
    IF track_grad_norm = -1
    THEN [calls |-> <<>>, fx |-> current_fx_name]
    ELSE LET prev_fx == current_fx_name
             during == "on_before_optimizer_step"
         IN  [calls |-> <<Ev("grad_norm",
                             <<"lightning_module", IF empty THEN "{}" ELSE "grad_norm_dict">>,
                             -1, Some(track_grad_norm), {}),
                          EvFx("set _current_fx_name", <<during>>, during),
                          EvFx("log_grad_norm", <<"grad_norm_dict">>, during),
                          EvFx("set _current_fx_name", <<prev_fx>>, prev_fx)>>,
              fx |-> prev_fx]

\* _track_grad_norm that leaves _current_fx_name as it was during the report.
_track_grad_norm_keeps_fx(empty) ==
    IF track_grad_norm = -1
    THEN [calls |-> <<>>, fx |-> current_fx_name]
    ELSE LET computed == <<Ev("grad_norm",
                              <<"lightning_module", IF empty THEN "{}" ELSE "grad_norm_dict">>,
                              -1, Some(track_grad_norm), {})>>
         IN  IF ~empty
             THEN LET during == "on_before_optimizer_step"
                  IN  [calls |-> computed \o
                                 <<EvFx("set _current_fx_name", <<during>>, during),
                                   EvFx("log_grad_norm", <<"grad_norm_dict">>, during)>>,
                       fx |-> during]
             ELSE [calls |-> computed, fx |-> current_fx_name]

\* _track_grad_norm: empty says whether grad_norm returned an empty dictionary.
\* The calls record what grad_norm returned and every assignment to
\* _current_fx_name; fx is the value of _current_fx_name when the method has
\* returned.
_track_grad_norm(empty) ==
    IF track_grad_norm = -1
    THEN [calls |-> <<>>, fx |-> current_fx_name]
    ELSE LET computed == <<Ev("grad_norm",
                              <<"lightning_module", IF empty THEN "{}" ELSE "grad_norm_dict">>,
                              -1, Some(track_grad_norm), {})>>
         IN  IF ~empty
             THEN LET prev_fx == current_fx_name
                      during == "on_before_optimizer_step"
                  IN  [calls |-> computed \o
                                 <<EvFx("set _current_fx_name", <<during>>, during),
                                   EvFx("log_grad_norm", <<"grad_norm_dict">>, during),
                                   EvFx("set _current_fx_name", <<prev_fx>>, prev_fx)>>,
                       fx |-> prev_fx]
             ELSE [calls |-> computed, fx |-> current_fx_name]

\* clip_gradients that returns early only when no model is supplied.
clip_gradients_no_backend_gate(optimizer, optimizer_idx, clip_val, algorithm, model, hookGrad) ==
    IF model = "None"
    THEN [calls |-> <<>>, grad |-> grad]
    ELSE [calls |-> <<Ev("model.configure_gradient_clipping", <<optimizer, algorithm>>,
                         optimizer_idx, clip_val,
                         {"gradient_clip_val", "gradient_clip_algorithm"})>>,
          grad |-> hookGrad]

\* clip_gradients: hookGrad is the state in which the model's
\* configure_gradient_clipping leaves the gradients.
clip_gradients(optimizer, optimizer_idx, clip_val, algorithm, model, hookGrad) ==
    IF use_deepspeed \/ model = "None"
    THEN [calls |-> <<>>, grad |-> grad]
    ELSE [calls |-> <<Ev("model.configure_gradient_clipping", <<optimizer, algorithm>>,
                         optimizer_idx, clip_val,
                         {"gradient_clip_val", "gradient_clip_algorithm"})>>,
          grad |-> hookGrad]

\* pre_optimizer_step that notifies before it clips.
pre_optimizer_step_notifies_first(model, optimizer, optimizer_idx, empty, hookGrad) ==
    LET tracked == IF optimizer_idx = 0
                   THEN LET t == _track_grad_norm(empty)
                        IN  [calls |-> <<Ev("self._track_grad_norm", <<"trainer">>, -1,
                                            None, {})>> \o t.calls,
                             fx |-> t.fx]
                   ELSE [calls |-> <<>>, fx |-> current_fx_name]
        clipped == clip_gradients(optimizer, optimizer_idx, gradient_clip_val,
                                  gradient_clip_algorithm, model, hookGrad)
        clipping == <<Ev("self.clip_gradients", <<optimizer, gradient_clip_algorithm, model>>,
                         optimizer_idx, gradient_clip_val,
                         {"gradient_clip_algorithm", "model"})>>
                    \o clipped.calls
        notified == IF isLightningModule(model)
                    THEN <<Ev("call_hook", <<"on_before_optimizer_step", optimizer>>,
                              optimizer_idx, None, {})>>
                    ELSE <<>>
    IN  [calls |-> tracked.calls \o notified \o clipping,
         fx |-> tracked.fx, grad |-> clipped.grad]

\* pre_optimizer_step that tracks the norm for every optimizer.
pre_optimizer_step_tracks_every_index(model, optimizer, optimizer_idx, empty, hookGrad) ==
    LET tracked == IF TRUE
                   THEN LET t == _track_grad_norm(empty)
                        IN  [calls |-> <<Ev("self._track_grad_norm", <<"trainer">>, -1,
                                            None, {})>> \o t.calls,
                             fx |-> t.fx]
                   ELSE [calls |-> <<>>, fx |-> current_fx_name]
        clipped == clip_gradients(optimizer, optimizer_idx, gradient_clip_val,
                                  gradient_clip_algorithm, model, hookGrad)
        clipping == <<Ev("self.clip_gradients", <<optimizer, gradient_clip_algorithm, model>>,
                         optimizer_idx, gradient_clip_val,
                         {"gradient_clip_algorithm", "model"})>>
                    \o clipped.calls
        notified == IF isLightningModule(model)
                    THEN <<Ev("call_hook", <<"on_before_optimizer_step", optimizer>>,
                              optimizer_idx, None, {})>>
                    ELSE <<>>
    IN  [calls |-> tracked.calls \o clipping \o notified,
         fx |-> tracked.fx, grad |-> clipped.grad]

\* pre_optimizer_step that clips before it tracks the norm.
pre_optimizer_step_clips_first(model, optimizer, optimizer_idx, empty, hookGrad) ==
    LET tracked == IF optimizer_idx = 0
                   THEN LET t == _track_grad_norm(empty)
                        IN  [calls |-> <<Ev("self._track_grad_norm", <<"trainer">>, -1,
                                            None, {})>> \o t.calls,
                             fx |-> t.fx]
                   ELSE [calls |-> <<>>, fx |-> current_fx_name]
        clipped == clip_gradients(optimizer, optimizer_idx, gradient_clip_val,
                                  gradient_clip_algorithm, model, hookGrad)
        clipping == <<Ev("self.clip_gradients", <<optimizer, gradient_clip_algorithm, model>>,
                         optimizer_idx, gradient_clip_val,
                         {"gradient_clip_algorithm", "model"})>>
                    \o clipped.calls
        notified == IF isLightningModule(model)
                    THEN <<Ev("call_hook", <<"on_before_optimizer_step", optimizer>>,
                              optimizer_idx, None, {})>>
                    ELSE <<>>
    IN  [calls |-> clipping \o tracked.calls \o notified,
         fx |-> tracked.fx, grad |-> clipped.grad]

pre_optimizer_step(model, optimizer, optimizer_idx, empty, hookGrad) ==
    LET tracked == IF optimizer_idx = 0
                   THEN LET t == _track_grad_norm(empty)
                        IN  [calls |-> <<Ev("self._track_grad_norm", <<"trainer">>, -1,
                                            None, {})>> \o t.calls,
                             fx |-> t.fx]
                   ELSE [calls |-> <<>>, fx |-> current_fx_name]
        clipped == clip_gradients(optimizer, optimizer_idx, gradient_clip_val,
                                  gradient_clip_algorithm, model, hookGrad)
        notified == IF isLightningModule(model)
                    THEN <<Ev("call_hook", <<"on_before_optimizer_step", optimizer>>,
                              optimizer_idx, None, {})>>
                    ELSE <<>>
    IN  [calls |-> tracked.calls
                   \o <<Ev("self.clip_gradients", <<optimizer, gradient_clip_algorithm, model>>,
                           optimizer_idx, gradient_clip_val,
                           {"gradient_clip_algorithm", "model"})>>
                   \o clipped.calls \o notified,
         fx |-> tracked.fx, grad |-> clipped.grad]

\* optimizer_step with the two conditions joined by "and".
optimizer_step_and(model, optimizer, optimizer_idx, closure_result, kwargs, fails) ==
    LET skipped_backward == closure_result = "None"
    IN  IF ~automatic_optimization /\ ~skipped_backward
        THEN LET called == <<Callee(Ev("optimizer.step", <<optimizer>>, -1, None, kwargs),
                                    fails, "StepError")>>
             IN  Result(called, Outcome(called), "None")
        ELSE Result(<<>>, "returned", "None")

optimizer_step(model, optimizer, optimizer_idx, closure_result, kwargs, fails) ==
    LET skipped_backward == closure_result = "None"
    IN  IF ~automatic_optimization \/ ~skipped_backward
        THEN LET called == <<Callee(Ev("optimizer.step", <<optimizer>>, -1, None, kwargs),
                                    fails, "StepError")>>
             IN  Result(called, Outcome(called), "None")
        ELSE Result(<<>>, "returned", "None")

----------------------------------------------------------------------------
\* Gradients as a successful backward pass leaves them, and the states in which
\* a (user-overridable) configure_gradient_clipping may leave them.
FreshGrad == [p \in Params |-> Some(4000)]
HookGradOutcomes == {grad, [p \in Params |-> Some(0)]}

ctxIdle ==
    /\ stack = <<>>
    /\ ctx_log = <<>>
    /\ exc = "None"

optimizerIdle ==
    /\ param_groups = <<[p \in Params |-> p]>>
    /\ view = <<>>

callsIdle ==
    /\ calls = <<>>
    /\ last = NoCall
    /\ step_events = <<>>
    /\ pending = OptimizerIdx
    /\ current = -1

trainerIdle ==
    /\ automatic_optimization = TRUE
    /\ track_grad_norm = -1
    /\ gradient_clip_val = None
    /\ gradient_clip_algorithm = "norm"
    /\ current_fx_name = "None"

config == <<automatic_optimization, use_deepspeed, track_grad_norm, gradient_clip_val,
            gradient_clip_algorithm>>
aside == <<param_groups, view, ctxVars>>
stepVars == <<step_events, pending, current>>

----------------------------------------------------------------------------
\* Spec: pre_backward, backward, post_backward and clip_gradients, in any order.

Init ==
    /\ trainerIdle
    /\ use_deepspeed \in BOOLEAN
    /\ callsIdle
    /\ grad = FreshGrad
    /\ before = grad
    /\ optimizerIdle
    /\ ctxIdle

do_pre_backward ==
    \E model \in {"LightningModule"}, loss \in {"loss"} :
        LET r == pre_backward(model, loss)
        IN  /\ calls' = r.calls
            /\ last' = Call("pre_backward", model, loss, "None", -1, <<>>, {}, None, "norm",
                            r.outcome, r.ret)
            /\ before' = grad
            /\ UNCHANGED <<config, current_fx_name, stepVars, grad, aside>>

do_backward ==
    \E model \in ModelKinds, loss \in {"loss"}, optimizer \in Optimizers \cup {"None"},
       args \in ExtraArgs, kwargs \in SUBSET KwargKeys, fails \in BOOLEAN :
        LET r == backward(model, loss, optimizer, args, kwargs, fails)
            ran == \E i \in 1 .. Len(r.calls) :
                       r.calls[i].fn \in {"model.backward", "tensor.backward"}
        IN  /\ calls' = r.calls
            /\ last' = Call("backward", model, loss, optimizer, -1, args, kwargs, None, "norm",
                            r.outcome, r.ret)
            /\ before' = grad
            /\ grad' = IF ran /\ r.outcome = "returned" THEN FreshGrad ELSE grad
            /\ UNCHANGED <<config, current_fx_name, stepVars, aside>>

do_post_backward ==
    \E model \in {"LightningModule"}, loss \in {"loss"} :
        LET r == post_backward(model, loss)
        IN  /\ calls' = r.calls
            /\ last' = Call("post_backward", model, loss, "None", -1, <<>>, {}, None, "norm",
                            r.outcome, r.ret)
            /\ before' = grad
            /\ UNCHANGED <<config, current_fx_name, stepVars, grad, aside>>

do_clip_gradients ==
    \E model \in {"LightningModule", "None"}, optimizer \in Optimizers,
       optimizer_idx \in OptimizerIdx, clip_val \in HookClipVals,
       algorithm \in GradClipAlgorithmType, hookGrad \in HookGradOutcomes :
        LET r == clip_gradients(optimizer, optimizer_idx, clip_val, algorithm, model, hookGrad)
        IN  /\ calls' = r.calls
            /\ last' = Call("clip_gradients", model, "None", optimizer, optimizer_idx,
                            <<>>, {}, clip_val, algorithm, "returned", "None")
            /\ before' = grad
            /\ grad' = r.grad
            /\ UNCHANGED <<config, current_fx_name, stepVars, aside>>

\* optimizer_step called on its own, outside the bookkeeping of a whole step.
call_optimizer_step ==
    \E model \in {"LightningModule"}, optimizer_idx \in OptimizerIdx,
       closure_result \in ClosureResults, kwargs \in StepKwargs, fails \in BOOLEAN :
        LET optimizer == OptimizerNames[optimizer_idx + 1]
            r == optimizer_step(model, optimizer, optimizer_idx, closure_result, kwargs, fails)
        IN  /\ calls' = r.calls
            /\ last' = Call("optimizer_step", model, closure_result, optimizer, optimizer_idx,
                            <<>>, kwargs, None, "norm", r.outcome, r.ret)
            /\ before' = grad
            /\ UNCHANGED <<config, current_fx_name, stepVars, grad, aside>>

Next ==
    \/ do_pre_backward
    \/ do_backward
    \/ do_post_backward
    \/ do_clip_gradients
    \/ call_optimizer_step

Spec == Init /\ [][Next]_vars

----------------------------------------------------------------------------
\* SpecStep: one optimization step after the other.  In a step the orchestrator
\* takes the optimizers in any order and calls pre_optimizer_step and then
\* optimizer_step for each.

InitStep ==
    /\ automatic_optimization \in BOOLEAN
    /\ use_deepspeed \in BOOLEAN
    /\ track_grad_norm \in TrackGradNorm
    /\ \E c \in ClipSettings : gradient_clip_val = c[1] /\ gradient_clip_algorithm = c[2]
    /\ current_fx_name \in FxNames
    /\ callsIdle
    /\ grad = FreshGrad
    /\ before = grad
    /\ optimizerIdle
    /\ ctxIdle

begin_step ==
    /\ current = -1
    /\ step_events # <<>>
    /\ step_events' = <<>>
    /\ pending' = OptimizerIdx
    /\ calls' = <<>>
    /\ last' = NoCall
    /\ before' = grad
    /\ grad' = FreshGrad
    /\ UNCHANGED <<config, current_fx_name, current, aside>>

do_pre_optimizer_step ==
    /\ current = -1
    /\ \E model \in {"LightningModule", "Module"}, optimizer_idx \in pending,
          empty \in BOOLEAN, hookGrad \in HookGradOutcomes :
        LET optimizer == OptimizerNames[optimizer_idx + 1]
            r == pre_optimizer_step(model, optimizer, optimizer_idx, empty, hookGrad)
        IN  /\ calls' = r.calls
            /\ last' = Call("pre_optimizer_step", model, "None", optimizer, optimizer_idx,
                            <<>>, {}, None, "norm", "returned", "None")
            /\ step_events' = step_events \o Thin(r.calls, optimizer_idx)
            /\ pending' = pending \ {optimizer_idx}
            /\ current' = optimizer_idx
            /\ current_fx_name' = r.fx
            /\ before' = grad
            /\ grad' = r.grad
            /\ UNCHANGED <<config, aside>>

do_optimizer_step ==
    /\ current # -1
    /\ \E model \in {"LightningModule"}, closure_result \in ClosureResults,
          kwargs \in StepKwargs, fails \in BOOLEAN :
        LET optimizer_idx == current
            optimizer == OptimizerNames[optimizer_idx + 1]
            r == optimizer_step(model, optimizer, optimizer_idx, closure_result, kwargs, fails)
        IN  /\ calls' = r.calls
            /\ last' = Call("optimizer_step", model, closure_result, optimizer, optimizer_idx,
                            <<>>, kwargs, None, "norm", r.outcome, r.ret)
            /\ step_events' = step_events
                                \o <<[fn |-> "self.optimizer_step", idx |-> optimizer_idx]>>
                                \o Thin(r.calls, optimizer_idx)
            /\ current' = -1
            /\ before' = grad
            /\ UNCHANGED <<config, current_fx_name, pending, grad, aside>>

NextStep ==
    \/ begin_step
    \/ do_pre_optimizer_step
    \/ do_optimizer_step

SpecStep == InitStep /\ [][NextStep]_vars

----------------------------------------------------------------------------
\* SpecParams: master_params on parameter groups drawn from a bounded set.
\* SpecClip: clip_grad_by_value and clip_grad_by_norm on an optimizer whose
\* parameter groups and gradients are drawn from bounded sets.

Min(a, b) == IF a <= b THEN a ELSE b
Max(a, b) == IF a >= b THEN a ELSE b
Abs(a) == IF a < 0 THEN 0 - a ELSE a

\* Division rounded towards zero.
TruncDiv(a, b) ==
    IF (a >= 0) = (b > 0) THEN Abs(a) \div Abs(b) ELSE 0 - (Abs(a) \div Abs(b))

RECURSIVE SqrtBetween(_, _, _)
SqrtBetween(n, lo, hi) ==
    IF lo >= hi THEN lo
    ELSE LET mid == (lo + hi + 1) \div 2
         IN  IF mid * mid <= n THEN SqrtBetween(n, mid, hi) ELSE SqrtBetween(n, lo, mid - 1)

\* The square root, rounded up: total_norm + 1e-6 > max_norm is then decided as
\* it is for the exact norm, thresholds being whole units.
Sqrt(n) ==
    LET r == SqrtBetween(n, 0, 46340)
    IN  IF r * r < n THEN r + 1 ELSE r

RECURSIVE master_params_from(_, _)
master_params_from(groups, g) ==
    IF g > Len(groups) THEN <<>> ELSE groups[g] \o master_params_from(groups, g + 1)

\* master_params that yields the groups from the last to the first.
RECURSIVE master_params_backwards(_)
master_params_backwards(optimizer) ==
    IF optimizer = <<>> THEN <<>>
    ELSE optimizer[Len(optimizer)]
            \o master_params_backwards(SubSeq(optimizer, 1, Len(optimizer) - 1))

\* for group in optimizer.param_groups: yield from group["params"]
master_params(optimizer) == master_params_from(optimizer, 1)

\* torch.clamp: min(max(x, lo), hi); with lo > hi every element becomes hi.
clamp(x, lo, hi) == Min(Max(x, lo), hi)

RECURSIVE clamp_each(_, _, _)
clamp_each(parameters, clip_value, g) ==
    IF parameters = <<>> THEN g
    ELSE LET p == Head(parameters)
             clamped == IF g[p] = None THEN g
                        ELSE [g EXCEPT ![p] = Some(clamp(g[p][1], 0 - clip_value, clip_value))]
         IN  clamp_each(Tail(parameters), clip_value, clamped)

\* torch.nn.utils.clip_grad_value_(parameters, clip_value): float(None) raises.
clip_grad_value_(parameters, clip_value, g) ==
    IF clip_value = None
    THEN [grad |-> g, outcome |-> "TypeError"]
    ELSE [grad |-> clamp_each(parameters, clip_value[1], g), outcome |-> "returned"]

RECURSIVE sum_squares(_, _)
sum_squares(parameters, g) ==
    IF parameters = <<>> THEN 0
    ELSE LET p == Head(parameters)
         IN  (IF g[p] = None THEN 0 ELSE g[p][1] * g[p][1])
                + sum_squares(Tail(parameters), g)

\* The 2-norm of the gradients of the parameters, as clip_grad_norm_ totals it.
total_norm(parameters, g) == Sqrt(sum_squares(parameters, g))

RECURSIVE mul_each(_, _, _, _)
mul_each(parameters, num, den, g) ==
    IF parameters = <<>> THEN g
    ELSE LET p == Head(parameters)
             scaled == IF g[p] = None THEN g
                       ELSE [g EXCEPT ![p] = Some(TruncDiv(g[p][1] * num, den))]
         IN  mul_each(Tail(parameters), num, den, scaled)

\* torch.nn.utils.clip_grad_norm_(parameters, max_norm):
\*   clip_coef = max_norm / (total_norm + 1e-6); the gradients are multiplied by
\*   clip_coef when it is below 1.
clip_grad_norm_(parameters, max_norm, g) ==
    IF max_norm = None
    THEN [grad |-> g, outcome |-> "TypeError"]
    ELSE LET norm == total_norm(parameters, g)
         IN  IF max_norm[1] < norm + Eps
             THEN [grad |-> mul_each(parameters, max_norm[1], norm + Eps, g),
                   outcome |-> "returned"]
             ELSE [grad |-> g, outcome |-> "returned"]

\* clip_grad_by_value that clamps from above only.
clip_grad_by_value_upper_only(optimizer, clip_val, g) ==
    IF clip_val = None
    THEN [grad |-> g, outcome |-> "TypeError"]
    ELSE [grad |-> [p \in DOMAIN g |->
                      IF g[p] = None \/ \A i \in 1 .. Len(master_params(optimizer)) :
                                            master_params(optimizer)[i] # p
                      THEN g[p] ELSE Some(Min(g[p][1], clip_val[1]))],
          outcome |-> "returned"]

clip_grad_by_value(optimizer, clip_val, g) ==
    LET parameters == master_params(optimizer)
    IN  clip_grad_value_(parameters, clip_val, g)

clip_grad_by_norm(optimizer, clip_val, g) ==
    LET parameters == master_params(optimizer)
    IN  clip_grad_norm_(parameters, clip_val, g)

Groups == UNION {[1 .. n -> Params] : n \in 0 .. MaxGroupLen}
ParamGroups == UNION {[1 .. n -> Groups] : n \in 1 .. MaxGroups}
Grads == [Params -> {None} \cup {Some(v) : v \in GradValues}]

\* The parameter groups torch.optim.Optimizer accepts without complaint: no
\* parameter is listed twice.
OptimizerParamGroups ==
    {pg \in ParamGroups :
        LET listed == master_params(pg)
        IN  \A i, j \in 1 .. Len(listed) : listed[i] = listed[j] => i = j}

rest == <<config, current_fx_name, calls, stepVars, ctxVars>>

InitParams ==
    /\ trainerIdle
    /\ use_deepspeed = FALSE
    /\ callsIdle
    /\ param_groups \in ParamGroups
    /\ grad = FreshGrad
    /\ before = grad
    /\ view = <<>>
    /\ ctxIdle

do_master_params ==
    /\ view' = master_params(param_groups)
    /\ last' = Call("master_params", "None", "None", "optimizer", -1, <<>>, {}, None, "norm",
                    "returned", "None")
    /\ before' = grad
    /\ UNCHANGED <<param_groups, grad, rest>>

NextParams == do_master_params

SpecParams == InitParams /\ [][NextParams]_vars

InitClip ==
    /\ trainerIdle
    /\ use_deepspeed = FALSE
    /\ callsIdle
    /\ param_groups \in OptimizerParamGroups
    /\ grad \in Grads
    /\ before = grad
    /\ view = <<>>
    /\ ctxIdle

do_clip_grad_by_value ==
    /\ \E clip_val \in ValueClipVals :
        LET r == clip_grad_by_value(param_groups, clip_val, grad)
        IN  /\ grad' = r.grad
            /\ last' = Call("clip_grad_by_value", "None", "None", "optimizer", -1, <<>>, {},
                            clip_val, "value", r.outcome, "None")
    /\ before' = grad
    /\ UNCHANGED <<param_groups, view, rest>>

do_clip_grad_by_norm ==
    /\ \E clip_val \in ClipVals :
        LET r == clip_grad_by_norm(param_groups, clip_val, grad)
        IN  /\ grad' = r.grad
            /\ last' = Call("clip_grad_by_norm", "None", "None", "optimizer", -1, <<>>, {},
                            clip_val, "norm", r.outcome, "None")
    /\ before' = grad
    /\ UNCHANGED <<param_groups, view, rest>>

NextClip ==
    \/ do_clip_grad_by_value
    \/ do_clip_grad_by_norm

SpecClip == InitClip /\ [][NextClip]_vars

----------------------------------------------------------------------------
\* SpecCtx: the caller nests with statements over the context managers, the
\* innermost body returns or raises, and the with statements are left one by one.
\*
\* A generator function decorated with contextlib.contextmanager is described by
\* the context managers it holds open at its yield; managed says that a with
\* statement holds the context manager, so that it is exited when an exception
\* is thrown into the generator at the yield.

StepContexts ==
    {"train_step_context", "val_step_context", "test_step_context", "predict_step_context"}
CtxKinds == {"forward_context"} \cup StepContexts

Held(cm) == [cm |-> cm, managed |-> TRUE]

forward_context == <<>>

\* train_step_context that enters forward_context by hand and exits it after
\* the yield, with no with statement and no try/finally.
train_step_context_unmanaged == <<[cm |-> "forward_context", managed |-> FALSE]>>

train_step_context == <<Held("forward_context")>>

\* val_step_context that yields without entering forward_context.
val_step_context_bare == <<>>

val_step_context == <<Held("forward_context")>>

test_step_context == <<Held("forward_context")>>

predict_step_context == <<Held("forward_context")>>

GeneratorBody(fn) ==
    CASE fn = "forward_context" -> forward_context
      [] fn = "train_step_context" -> train_step_context
      [] fn = "val_step_context" -> val_step_context
      [] fn = "test_step_context" -> test_step_context
      [] fn = "predict_step_context" -> predict_step_context

Frame(id, fn, owner, managed) == [id |-> id, fn |-> fn, owner |-> owner, managed |-> managed]

CtxEv(ev, f, how) == [ev |-> ev, id |-> f.id, fn |-> f.fn, owner |-> f.owner, how |-> how]

RaiseEv == [ev |-> "raise", id |-> 0, fn |-> "body", owner |-> 0, how |-> "exception"]

Entered == {i \in 1 .. Len(ctx_log) : ctx_log[i].ev = "enter"}

\* contextmanager.__enter__: next(gen) runs the generator up to its yield, entering
\* on the way the context managers the generator holds.  The generator gets the
\* number id, those it holds the numbers after it.
cm_enter(fn, id) ==
    LET body == GeneratorBody(fn)
    IN  <<Frame(id, fn, 0, TRUE)>>
            \o [i \in 1 .. Len(body) |-> Frame(id + i, body[i].cm, id, body[i].managed)]

\* contextmanager.__exit__ of the generator frames[1]: next(gen), or
\* gen.throw(exception) when the body raised.  The generator leaves the context
\* managers it holds, the last entered first; one that no with statement holds is
\* left only when the generator runs on after the yield.  The events, in order.
RECURSIVE cm_exit(_, _)
cm_exit(frames, how) ==
    IF frames = <<>> THEN <<>>
    ELSE LET f == frames[Len(frames)]
             below == cm_exit(SubSeq(frames, 1, Len(frames) - 1), how)
         IN  IF Len(frames) = 1 \/ f.managed \/ how = "normal"
             THEN <<CtxEv("exit", f, how)>> \o below
             ELSE below

InitCtx ==
    /\ trainerIdle
    /\ use_deepspeed = FALSE
    /\ callsIdle
    /\ grad = FreshGrad
    /\ before = grad
    /\ optimizerIdle
    /\ ctxIdle

others == <<hookVars, clipVars, grad>>

\* The caller's scopes: the frames of the stack that a with statement of the caller holds.
Scopes == {i \in 1 .. Len(stack) : stack[i].owner = 0}

\* with self.<fn>(): ...
do_enter ==
    /\ exc = "None"
    /\ Cardinality({i \in Entered : ctx_log[i].owner = 0}) < MaxScopes
    /\ \E fn \in CtxKinds :
        LET frames == cm_enter(fn, Cardinality(Entered) + 1)
        IN  /\ stack' = stack \o frames
            /\ ctx_log' = ctx_log \o [i \in 1 .. Len(frames) |-> CtxEv("enter", frames[i], "normal")]
    /\ UNCHANGED <<exc, others>>

\* The body of the innermost with statement raises.
do_raise ==
    /\ exc = "None"
    /\ stack # <<>>
    /\ exc' = "raised"
    /\ ctx_log' = ctx_log \o <<RaiseEv>>
    /\ UNCHANGED <<stack, others>>

\* The innermost with statement of the caller is left, its body having returned
\* or an exception being on its way up.  __exit__ returns False: the exception
\* goes on, and reaches the caller once no with statement is left.
do_exit ==
    /\ exc \in {"None", "raised"}
    /\ Scopes # {}
    /\ LET k == CHOOSE i \in Scopes : \A j \in Scopes : j <= i
           how == IF exc = "raised" THEN "exception" ELSE "normal"
       IN  /\ ctx_log' = ctx_log \o cm_exit(SubSeq(stack, k, Len(stack)), how)
           /\ stack' = SubSeq(stack, 1, k - 1)
           /\ exc' = IF exc = "raised" /\ k = 1 THEN "propagated" ELSE exc
    /\ UNCHANGED others

NextCtx ==
    \/ do_enter
    \/ do_raise
    \/ do_exit

SpecCtx == InitCtx /\ [][NextCtx]_vars

----------------------------------------------------------------------------
\* Properties of SpecParams and SpecClip

Clipped(op) == last.op = op /\ last.outcome = "returned"

\* C4: clip_grad_by_value and clip_grad_by_norm with an absent or non-positive
\* threshold leave every gradient as it was.
C4_NonPositiveThresholdIsNoOp ==
    (/\ last.op \in {"clip_grad_by_value", "clip_grad_by_norm"}
     /\ (last.val = None \/ last.val[1] <= 0))
        => grad = before

\* C5: after clip_grad_by_value with t > 0 every gradient of every parameter of
\* every group lies in [-t, t], and clipping again with the same t changes nothing.
C5_ClipByValueRangeIdempotent ==
    (last.op = "clip_grad_by_value" /\ last.val # None /\ last.val[1] > 0) =>
        LET t == last.val[1]
        IN  /\ \A g \in 1 .. Len(param_groups) : \A k \in 1 .. Len(param_groups[g]) :
                  LET p == param_groups[g][k]
                  IN  grad[p] # None => (0 - t <= grad[p][1] /\ grad[p][1] <= t)
            /\ clip_grad_by_value(param_groups, last.val, grad).grad = grad

C5_Witness ==
    /\ Clipped("clip_grad_by_value")
    /\ last.val = Some(5000)
    /\ Len(param_groups) = 2
    /\ \E p \in Params : before[p] = Some(-6000) /\ grad[p] = Some(-5000)
    /\ \E p \in Params : before[p] = Some(4000) /\ grad[p] = Some(4000)

\* C6: after clip_grad_by_norm with t > 0 the total gradient norm is at most t,
\* and gradients whose total norm was at most t (t itself included) are unchanged.
C6_ClipByNorm ==
    (last.op = "clip_grad_by_norm" /\ last.val # None /\ last.val[1] > 0) =>
        LET t == last.val[1]
            parameters == master_params(param_groups)
        IN  /\ sum_squares(parameters, grad) <= t * t
            /\ sum_squares(parameters, before) <= t * t => grad = before

RECURSIVE LenBefore(_, _)
LenBefore(groups, g) ==
    IF g <= 1 THEN 0 ELSE Len(groups[g - 1]) + LenBefore(groups, g - 1)

\* C7: master_params yields the params of the groups one group after the other
\* in the order of param_groups, every listed parameter at its place (a parameter
\* listed twice is yielded twice), and leaves param_groups as they were.
C7_MasterParamsConcatenates ==
    [][last'.op = "master_params" =>
          /\ param_groups' = param_groups
          /\ Len(view') = LenBefore(param_groups, Len(param_groups) + 1)
          /\ \A g \in 1 .. Len(param_groups) : \A k \in 1 .. Len(param_groups[g]) :
                view'[LenBefore(param_groups, g) + k] = param_groups[g][k]]_vars

C7_Witness ==
    /\ last.op = "master_params"
    /\ Len(param_groups) = 2
    /\ param_groups[1] = <<2, 1>>
    /\ param_groups[2] = <<1>>
    /\ view = <<2, 1, 1>>

----------------------------------------------------------------------------
\* Properties of SpecCtx

ExitsOf(id) == {i \in 1 .. Len(ctx_log) : ctx_log[i].ev = "exit" /\ ctx_log[i].id = id}
Raised == \E i \in 1 .. Len(ctx_log) : ctx_log[i].ev = "raise"
OnStack(id) == \E k \in 1 .. Len(stack) : stack[k].id = id

\* C8: when the innermost body of nested context managers raises, every scope
\* entered is torn down exactly once, inner scopes before outer ones, none is
\* still active once the with statements are left, and the caller gets the
\* exception.
C8_TeardownOnException ==
    Raised =>
        /\ exc \in {"raised", "propagated"}
        /\ (exc = "propagated") <=> (stack = <<>>)
        /\ \A e \in Entered :
              /\ Cardinality(ExitsOf(ctx_log[e].id)) <= 1
              /\ ~OnStack(ctx_log[e].id) => Cardinality(ExitsOf(ctx_log[e].id)) = 1
        /\ \A a, b \in Entered :
              \A xa \in ExitsOf(ctx_log[a].id) :
                  (a < b /\ b < xa) => \E xb \in ExitsOf(ctx_log[b].id) : xb < xa

C8_Witness ==
    /\ exc = "propagated"
    /\ Len(ctx_log) = 7
    /\ ctx_log[1].ev = "enter" /\ ctx_log[1].fn = "forward_context"
    /\ ctx_log[2].ev = "enter" /\ ctx_log[2].fn = "train_step_context"
    /\ ctx_log[3].ev = "enter" /\ ctx_log[3].fn = "forward_context" /\ ctx_log[3].owner = 2
    /\ ctx_log[4].ev = "raise"
    /\ ctx_log[5].ev = "exit" /\ ctx_log[5].id = 3
    /\ ctx_log[6].ev = "exit" /\ ctx_log[6].id = 2
    /\ ctx_log[7].ev = "exit" /\ ctx_log[7].id = 1

\* What the generator numbered id did to the context managers it holds.
OwnedBy(id) ==
    LET owned == SelectSeq(ctx_log, LAMBDA e : e.owner = id)
    IN  [i \in 1 .. Len(owned) |-> <<owned[i].ev, owned[i].fn, owned[i].how>>]

\* C9: each of the four step contexts enters forward_context exactly once right
\* when it is entered and exits it exactly once right when it is exited, so that
\* any two of them left the same way made the same forward_context events.
C9_StepContextsEquivalent ==
    /\ \A e \in 1 .. Len(ctx_log) :
          ctx_log[e].fn \in StepContexts =>
              LET id == ctx_log[e].id
                  owned(ev) == {i \in 1 .. Len(ctx_log) :
                                   ctx_log[i].owner = id /\ ctx_log[i].ev = ev}
              IN  /\ ctx_log[e].ev = "enter" =>
                        /\ owned("enter") = {e + 1}
                        /\ ctx_log[e + 1].fn = "forward_context"
                  /\ ctx_log[e].ev = "exit" =>
                        /\ owned("exit") = {e - 1}
                        /\ ctx_log[e - 1].fn = "forward_context"
                        /\ ctx_log[e - 1].how = ctx_log[e].how
    /\ \A a, b \in 1 .. Len(ctx_log) :
          (/\ ctx_log[a].fn \in StepContexts /\ ctx_log[b].fn \in StepContexts
           /\ ctx_log[a].ev = "exit" /\ ctx_log[b].ev = "exit"
           /\ ctx_log[a].how = ctx_log[b].how)
              => OwnedBy(ctx_log[a].id) = OwnedBy(ctx_log[b].id)

C9_Witness ==
    /\ stack = <<>>
    /\ \E a, b, c \in 1 .. Len(ctx_log) :
          /\ ctx_log[a].ev = "exit" /\ ctx_log[a].fn = "val_step_context"
          /\ ctx_log[b].ev = "exit" /\ ctx_log[b].fn = "predict_step_context"
          /\ ctx_log[c].ev = "exit" /\ ctx_log[c].fn = "test_step_context"
          /\ ctx_log[a].how = "normal" /\ ctx_log[b].how = "normal"
          /\ OwnedBy(ctx_log[a].id) = <<<<"enter", "forward_context", "normal">>,
                                        <<"exit", "forward_context", "normal">>>>

----------------------------------------------------------------------------
\* Properties of SpecStep

\* C1: one call of optimizer_step invokes optimizer.step exactly once, with the
\* optimizer's step kwargs, unless automatic_optimization is true and the closure
\* result is None, in which case optimizer.step is not invoked.
C1_StepUnlessAutomaticSkip ==
    last.op = "optimizer_step" =>
        /\ Count(calls, "optimizer.step")
              = IF automatic_optimization /\ last.loss = "None" THEN 0 ELSE 1
        /\ \A i \in 1 .. Len(calls) :
              calls[i].fn = "optimizer.step" =>
                  calls[i].args = <<last.opt>> /\ calls[i].kw = last.kw

C1_Witness ==
    /\ last.op = "optimizer_step"
    /\ ~automatic_optimization
    /\ last.loss = "None"
    /\ last.kw = {"closure"}
    /\ Count(calls, "optimizer.step") = 1

TrackingFns == {"grad_norm", "log_grad_norm"}

\* C2: within one optimization step no gradient-norm computation or report comes
\* after a gradient clipping of that step, whatever the order of the optimizers.
C2_TrackingNeverAfterClipping ==
    \A i, j \in 1 .. Len(step_events) :
        (i < j /\ step_events[i].fn = "model.configure_gradient_clipping")
            => step_events[j].fn \notin TrackingFns

----------------------------------------------------------------------------
\* Properties of Spec

\* C3: clip_gradients calls model.configure_gradient_clipping exactly once, with
\* the optimizer, index, clip value and algorithm it was given, iff DeepSpeed is
\* not in use and a model is supplied; otherwise it returns without a call and
\* leaves every gradient as it was.
C3_ClipGate ==
    last.op = "clip_gradients" =>
        /\ last.outcome = "returned"
        /\ IF ~use_deepspeed /\ last.model # "None"
           THEN /\ Len(calls) = 1
                /\ calls[1].fn = "model.configure_gradient_clipping"
                /\ calls[1].args = <<last.opt, last.alg>>
                /\ calls[1].idx = last.idx
                /\ calls[1].val = last.val
           ELSE calls = <<>> /\ grad = before

C3_Witness ==
    /\ last.op = "clip_gradients"
    /\ use_deepspeed
    /\ last.model = "LightningModule"
    /\ calls = <<>>

\* C10: backward runs exactly one backward implementation per call: for a
\* LightningModule model.backward(loss, optimizer, *args, **kwargs) once and no
\* tensor backward, otherwise the tensor backward once and no model backward.
C10_ExactlyOneBackward ==
    last.op = "backward" =>
        IF last.model = "LightningModule"
        THEN /\ Count(calls, "model.backward") = 1
             /\ Count(calls, "tensor.backward") = 0
             /\ \A i \in 1 .. Len(calls) :
                   calls[i].fn = "model.backward" =>
                       /\ calls[i].args = <<last.loss, last.opt>> \o last.args
                       /\ calls[i].kw = last.kw
        ELSE /\ Count(calls, "tensor.backward") = 1
             /\ Count(calls, "model.backward") = 0

----------------------------------------------------------------------------
\* Claims about the notifications of one optimizer step

HookCalls(evs, hook) ==
    {i \in 1 .. Len(evs) : evs[i].fn = "call_hook" /\ evs[i].args[1] = hook}

Positions(evs, fn) == {i \in 1 .. Len(evs) : evs[i].fn = fn}

\* C11: pre_optimizer_step fires "on_before_optimizer_step" exactly once, with
\* the optimizer and its index, when the model is a LightningModule, and only
\* after clip_gradients has been invoked in that call; for any other model it
\* fires it zero times.
C11_NotifiesOnceAfterClipping ==
    last.op = "pre_optimizer_step" =>
        LET hooks == HookCalls(calls, "on_before_optimizer_step")
        IN  IF isLightningModule(last.model)
            THEN /\ Cardinality(hooks) = 1
                 /\ \A i \in hooks :
                        /\ calls[i].args = <<"on_before_optimizer_step", last.opt>>
                        /\ calls[i].idx = last.idx
                        /\ \E c \in Positions(calls, "self.clip_gradients") : c < i
            ELSE hooks = {}

C11_Witness ==
    /\ last.op = "pre_optimizer_step"
    /\ isLightningModule(last.model)
    /\ Positions(calls, "model.configure_gradient_clipping") # {}
    /\ calls[Len(calls)].fn = "call_hook"
    /\ calls[Len(calls)].args = <<"on_before_optimizer_step", last.opt>>

\* C12: pre_optimizer_step invokes _track_grad_norm exactly once when
\* optimizer_idx is 0 and never for another index, and invokes clip_gradients
\* exactly once in every call.
C12_TracksFirstIndexClipsAlways ==
    last.op = "pre_optimizer_step" =>
        /\ Count(calls, "self._track_grad_norm") = (IF last.idx = 0 THEN 1 ELSE 0)
        /\ Count(calls, "self.clip_gradients") = 1

C12_Witness ==
    /\ last.op = "pre_optimizer_step"
    /\ last.idx # 0
    /\ track_grad_norm # -1
    /\ Count(calls, "self._track_grad_norm") = 0
    /\ Count(calls, "self.clip_gradients") = 1

\* C13: _track_grad_norm calls log_grad_norm exactly once when track_grad_norm
\* is not -1 and grad_norm returned a non-empty dictionary, and never otherwise;
\* with -1 grad_norm is not called at all, and an empty result ends the call
\* without a report and without an error.
C13_ReportsIffEnabledAndNonEmpty ==
    (last.op = "pre_optimizer_step" /\ last.idx = 0) =>
        LET computed == Positions(calls, "grad_norm")
            nonEmpty == \E i \in computed : calls[i].args[2] = "grad_norm_dict"
        IN  /\ Cardinality(computed) = (IF track_grad_norm = -1 THEN 0 ELSE 1)
            /\ Count(calls, "log_grad_norm")
                   = (IF track_grad_norm # -1 /\ nonEmpty THEN 1 ELSE 0)
            /\ \A i \in Positions(calls, "log_grad_norm") :
                   calls[i].args = <<"grad_norm_dict">>
            /\ last.outcome = "returned"

C13_Witness ==
    /\ last.op = "pre_optimizer_step"
    /\ last.idx = 0
    /\ track_grad_norm # -1
    /\ Count(calls, "grad_norm") = 1
    /\ Count(calls, "log_grad_norm") = 1

\* C14: post_backward detaches the loss, then fires "on_after_backward" exactly
\* once, and returns the detached loss, which is not the loss it was given.
C14_DetachesThenNotifies ==
    last.op = "post_backward" =>
        /\ Len(calls) = 2
        /\ calls[1].fn = "tensor.detach"
        /\ calls[1].args = <<last.loss>>
        /\ calls[2].fn = "call_hook"
        /\ calls[2].args = <<"on_after_backward">>
        /\ last.ret = detach(last.loss)
        /\ last.ret # last.loss

C14_Witness ==
    /\ last.op = "post_backward"
    /\ last.loss = "loss"
    /\ last.ret = "loss.detach()"
    /\ HookCalls(calls, "on_after_backward") = {2}

\* C15: pre_backward fires "on_before_backward" exactly once, with the closure
\* loss, and returns the loss it was given.
C15_NotifiesAndReturnsSameLoss ==
    last.op = "pre_backward" =>
        /\ Len(calls) = 1
        /\ calls[1].fn = "call_hook"
        /\ calls[1].args = <<"on_before_backward", last.loss>>
        /\ last.ret = last.loss

C15_Witness ==
    /\ last.op = "pre_backward"
    /\ last.ret = "loss"
    /\ HookCalls(calls, "on_before_backward") = {1}

----------------------------------------------------------------------------
\* Claims about failures and arguments of backward and optimizer_step

Raising(evs) == {i \in 1 .. Len(evs) : evs[i].raises # "None"}

\* C16: an exception raised by model.backward, by tensor.backward or by
\* optimizer.step ends the call of backward / optimizer_step with exactly that
\* exception: the raising call is the last thing the method does, and it is the
\* only backward or step of its kind in the call.
C16_CalleeExceptionPropagates ==
    last.op \in {"backward", "optimizer_step"} =>
        \A i \in Raising(calls) :
            /\ i = Len(calls)
            /\ last.outcome = calls[i].raises
            /\ Count(calls, calls[i].fn) = 1
            /\ Cardinality(Raising(calls)) = 1

C16_Witness ==
    /\ last.op = "backward"
    /\ ~isLightningModule(last.model)
    /\ Raising(calls) = {Len(calls)}
    /\ calls[Len(calls)].fn = "tensor.backward"
    /\ last.outcome = "TensorBackwardError"

\* C17: backward without a LightningModule performs tensor.backward exactly
\* once, whatever the extra positional arguments are (none included), and
\* tensor.backward receives the loss followed by exactly those arguments.
C17_TensorBackwardGetsEveryArg ==
    (last.op = "backward" /\ ~isLightningModule(last.model)) =>
        /\ Count(calls, "tensor.backward") = 1
        /\ \A i \in Positions(calls, "tensor.backward") :
               calls[i].args = <<last.loss>> \o last.args

\* C18: when optimizer_step follows pre_optimizer_step for an optimizer and the
\* closure result is None under automatic optimization, optimizer.step is not
\* invoked, and the pre_optimizer_step before it has still tracked the norm (for
\* index 0), then invoked clip_gradients, then fired "on_before_optimizer_step"
\* (for a LightningModule), in that order.
C18_StepSkippedAfterFullPreStep ==
    [][(/\ last'.op = "optimizer_step"
        /\ automatic_optimization
        /\ last'.loss = "None")
       => /\ calls' = <<>>
          /\ last.op = "pre_optimizer_step"
          /\ last.idx = last'.idx
          /\ \E c \in Positions(calls, "self.clip_gradients") :
                /\ last.idx = 0 =>
                       /\ calls[1].fn = "self._track_grad_norm"
                       /\ 1 < c
                /\ \A t \in 1 .. Len(calls) :
                       calls[t].fn \in {"grad_norm", "log_grad_norm"} => t < c
                /\ isLightningModule(last.model) =>
                       /\ HookCalls(calls, "on_before_optimizer_step") = {Len(calls)}
                       /\ c < Len(calls)
      ]_vars

C18_Witness ==
    /\ last.op = "optimizer_step"
    /\ automatic_optimization
    /\ last.loss = "None"
    /\ last.idx = 0
    /\ calls = <<>>
    /\ \E t, c, h, o \in 1 .. Len(step_events) :
          /\ t < c /\ c < h /\ h < o
          /\ step_events[t] = [fn |-> "log_grad_norm", idx |-> 0]
          /\ step_events[c] = [fn |-> "model.configure_gradient_clipping", idx |-> 0]
          /\ step_events[h] = [fn |-> "on_before_optimizer_step", idx |-> 0]
          /\ step_events[o] = [fn |-> "self.optimizer_step", idx |-> 0]
    /\ \A i \in 1 .. Len(step_events) :
          step_events[i] # [fn |-> "optimizer.step", idx |-> 0]

\* C19: when _track_grad_norm reports, _current_fx_name is set to
\* "on_before_optimizer_step" just before log_grad_norm, has that value during
\* log_grad_norm, and is set back to its value from before the call, which it
\* has when the method has returned; when nothing is reported,
\* _current_fx_name is never assigned.
C19_FxNameSetForReportThenRestored ==
    [][last'.op = "pre_optimizer_step"
       => LET logs == Positions(calls', "log_grad_norm")
              sets == Positions(calls', "set _current_fx_name")
          IN  /\ current_fx_name' = current_fx_name
              /\ IF logs = {}
                 THEN sets = {}
                 ELSE \A i \in logs :
                        /\ calls'[i].fx = "on_before_optimizer_step"
                        /\ sets = {i - 1, i + 1}
                        /\ calls'[i - 1].args = <<"on_before_optimizer_step">>
                        /\ calls'[i + 1].args = <<current_fx_name>>
      ]_vars

C19_Witness ==
    /\ last.op = "pre_optimizer_step"
    /\ current_fx_name = "training_step"
    /\ \E i \in Positions(calls, "log_grad_norm") :
          /\ calls[i].fx = "on_before_optimizer_step"
          /\ calls[i + 1].fn = "set _current_fx_name"
          /\ calls[i + 1].args = <<"training_step">>

====
